---- MODULE Spec2Model ----
(***************************************************************************)
(* State-machine model of shift_bot.py (ShiftBot 6.0): the users and       *)
(* shifts tables, the volatile PENDING correlation map, and the handlers   *)
(* that read and write them.                                               *)
(*                                                                         *)
(* Every handler is an operator that maps the current state and the        *)
(* event's inputs to a record: the state after the run plus what the run   *)
(* answered (reply, shown, notify).  The action of a handler installs      *)
(* that record.  Events of senders without a Telegram username stop at     *)
(* the username gate (lines 121-183, 733-753) before any code below runs   *)
(* and change nothing: they are stuttering steps and are not enumerated.   *)
(***************************************************************************)
EXTENDS Integers, FiniteSets, Sequences, TLC

(* ------------------------------ bounds -------------------------------- *)
\* calendar prompts ever sent (their message ids are 1..MaxPrompts)
MaxPrompts == 1
\* rows ever inserted into shifts (AUTOINCREMENT ids 1..MaxShifts)
MaxShifts == 2
\* calendar days 1..MaxDay
MaxDay == 2
\* handler runs that can be in flight at once under concurrent dispatch
MaxTasks == 2
\* media items of the album (events that carry the same media group id)
MaxAlbum == 2
\* date taps on the calendar prompts of the album
MaxTaps == 2
\* calendar prompts waiting while uploads and taps run as concurrent tasks
MaxRacePrompts == 2
\* pieces of a caption (words and digit groups shaped like a date)
MaxCaption == 2
MaxButtons == 2

(* ----------------------------- constants ------------------------------ *)
\* None / SQL NULL where a string is expected
Null == "NULL"
\* None where an integer (user id, date, message id, shift id) is expected
NONE == 0

ORG_PDCNAFR == "PDCFRNA"
ORG_PDBNAFR == "PDBFRNA"

ORG_LABELS == {ORG_PDCNAFR, ORG_PDBNAFR}

ORG_ADMINS == [o \in ORG_LABELS |->
                 IF o = ORG_PDCNAFR THEN {455696266} ELSE {666837389}]

\* the people who talk to the bot: the two registry admins and one member
UserIds == {455696266, 666837389, 1001}

\* the senders of the posting specifications: each is admin of one
\* department and plain member of the other
Posters == {455696266, 666837389}

Dates == 1..MaxDay

ChatTypes == {"private", "group"}

\* what may follow "/start": nothing, a department code in either case, junk
StartPayloads == {Null, "PDCFRNA", "pdbfrna", "XYZ"}

VARIABLES
    users,        \* table users: user_id -> [org, status]
    shifts,       \* table shifts: set of rows
    nextShiftId,  \* AUTOINCREMENT of shifts.id
    PENDING,      \* calendar message id -> payload of the waiting upload
    nextCalId,    \* message id the next calendar prompt gets
    today,        \* datetime.now(TZ).date()
    taken,        \* history: prompt -> number of taps that obtained its payload
    made,         \* history: prompt -> number of shift rows written from it
    tasks,        \* handler runs suspended at an await (concurrent dispatch)
    album,        \* history of one media group: items, date taps, confirmations
    since,        \* history: prompt -> membership events of its owner while
                  \* the entry waited
    buttons       \* history: the admin messages with inline buttons that
                  \* were sent and not yet edited by a tap

vars == <<users, shifts, nextShiftId, PENDING, nextCalId, today, taken, made,
          tasks, album, since, buttons>>

(* ------------------------------ helpers ------------------------------- *)
NoRow == [org |-> Null, status |-> "none"]

NoEntries == [k \in {} |-> [owner_id |-> NONE]]

\* nothing of the media group has arrived yet
NoAlbum == [items |-> 0, taps |-> 0, at_tap |-> 0, confirms |-> 0]

\* a slot of the event loop that runs no handler
Idle ==
    [pc |-> "idle", cal |-> NONE, date_iso |-> NONE, u |-> NONE,
     present |-> FALSE, reply |-> Null]

NoTasks == [s \in 1..MaxTasks |-> Idle]

\* the state as a record, and a handler's result: the state plus its answers
Cur ==
    [users |-> users, shifts |-> shifts, nextShiftId |-> nextShiftId,
     PENDING |-> PENDING, nextCalId |-> nextCalId, taken |-> taken,
     made |-> made, reply |-> Null, shown |-> {}, notify |-> {}, cal |-> NONE]

Install(r) ==
    /\ users' = r.users
    /\ shifts' = r.shifts
    /\ nextShiftId' = r.nextShiftId
    /\ PENDING' = r.PENDING
    /\ nextCalId' = r.nextCalId
    /\ taken' = r.taken
    /\ made' = r.made

\* str.upper() on the payload of /start
Upper(s) ==
    IF s = "pdcfrna" THEN "PDCFRNA"
    ELSE IF s = "pdbfrna" THEN "PDBFRNA"
    ELSE s

is_admin_for_org_any(user_id, org) == TRUE

is_admin_for_org(user_id, org) ==
    org \in DOMAIN ORG_ADMINS /\ user_id \in ORG_ADMINS[org]

get_user_row(user_id) ==
    IF user_id \in DOMAIN users THEN users[user_id] ELSE NoRow

get_approved_org_any_status(user_id) == get_user_row(user_id).org

get_approved_org(user_id) ==
    LET row == get_user_row(user_id)
    IN  IF row.status = "none" THEN Null
        ELSE IF row.status # "approved" THEN Null
        ELSE row.org

upsert_user_keep_status(us, user_id, org, status) ==
    IF user_id \in DOMAIN us
    THEN [us EXCEPT ![user_id].org = IF org = Null THEN @ ELSE org]
    ELSE us @@ (user_id :> [org |-> org, status |-> "pending"])

upsert_user_no_coalesce(us, user_id, org, status) ==
    IF user_id \in DOMAIN us
    THEN [us EXCEPT ![user_id] =
            [org    |-> org,
             status |-> IF status = Null THEN "pending" ELSE status]]
    ELSE us @@ (user_id :>
            [org    |-> org,
             status |-> IF status = Null THEN "pending" ELSE status])

\* upsert_user on table us; org/status = Null stand for None
upsert_user(us, user_id, org, status) ==
    IF user_id \in DOMAIN us
    THEN [us EXCEPT ![user_id] =
            [org    |-> IF org = Null THEN @.org ELSE org,
             status |-> IF status = Null THEN @.status ELSE status]]
    ELSE us @@ (user_id :>
            [org    |-> org,
             status |-> IF status = Null THEN "pending" ELSE status])

has_open_on_date_never(user_id, date_iso) == FALSE

has_open_on_date_in_org(user_id, date_iso) ==
    \E s \in shifts :
        /\ s.user_id = user_id /\ s.date_iso = date_iso /\ s.status = "open"
        /\ s.org = get_approved_org(user_id)

has_open_on_date(user_id, date_iso) ==
    \E s \in shifts :
        s.user_id = user_id /\ s.date_iso = date_iso /\ s.status = "open"

save_shift_raw_unchecked(user_id, date_iso, org) ==
    [id |-> nextShiftId,
     rows |-> shifts \cup
        {[id |-> nextShiftId, user_id |-> user_id, date_iso |-> date_iso,
          org |-> org, status |-> "open"]}]

\* save_shift_raw: [id |-> new id or -1, rows |-> the table afterwards]
save_shift_raw(user_id, date_iso, org) ==
    LET o == IF org # Null THEN org
             ELSE IF user_id # NONE THEN get_approved_org(user_id)
             ELSE Null
    IN  IF o = Null
        THEN [id |-> -1, rows |-> shifts]
        ELSE [id |-> nextShiftId,
              rows |-> shifts \cup
                 {[id |-> nextShiftId, user_id |-> user_id,
                   date_iso |-> date_iso, org |-> o, status |-> "open"]}]

\* save_shift: the org is the sender's approved org at the time of the write
save_shift(user_id, date_iso) ==
    save_shift_raw(user_id, date_iso, get_approved_org(user_id))

\* require_approved: "ok" or the refusal it answers with
require_approved(user_id, chat) ==
    IF chat # "private" THEN "ignored"
    ELSE IF get_user_row(user_id).status = "none" THEN "not_registered"
    ELSE IF get_user_row(user_id).status # "approved" THEN "not_active"
    ELSE "ok"

PENDING_pop_keep(p, k) == p

PENDING_pop_clear(p, k) ==
    IF k \in DOMAIN p THEN [x \in DOMAIN p \ {k} |-> p[x]] ELSE NoEntries

\* the map after PENDING.pop(k, None)
PENDING_pop(p, k) == [x \in DOMAIN p \ {k} |-> p[x]]

Bump(n) == IF n < 2 THEN n + 1 ELSE 2

(* ------------------------------ captions ------------------------------ *)
\* A caption is a sequence of pieces: a word, or a digit group in the shape
\* of one of DATE_PATTERNS (lines 233-236): "dmy" is d/m/yyyy and "ymd" is
\* yyyy/m/d, with any of the separators / - . or a blank; "dmy_short" is
\* d/m/yy, which no pattern matches.  date is the day the digits name, NONE
\* when they name no day of the calendar (31/02/2025).  The pieces are apart
\* from each other: no match of a pattern spans two of them.
DateShapes == {"dmy", "ymd"}

Pieces ==
    [fmt : DateShapes, date : Dates \cup {NONE}]
        \cup [fmt : {"dmy_short"}, date : Dates]
        \cup [fmt : {"text"}, date : {NONE}]

Captions == UNION {[1..n -> Pieces] : n \in 0..MaxCaption}

\* re.search(pat, text): the place of the first piece the pattern matches
First(caption, shape) ==
    IF \E i \in DOMAIN caption : caption[i].fmt = shape
    THEN CHOOSE i \in DOMAIN caption :
            /\ caption[i].fmt = shape
            /\ \A j \in DOMAIN caption : j < i => caption[j].fmt # shape
    ELSE 0

\* the loop body of parse_date for one pattern: the date of its first match,
\* NONE when it has no match or datetime() rejects the match
try_pattern(caption, shape) ==
    IF First(caption, shape) = 0 THEN NONE
    ELSE caption[First(caption, shape)].date

parse_date_iso_first(caption) ==
    IF try_pattern(caption, "ymd") # NONE THEN try_pattern(caption, "ymd")
    ELSE try_pattern(caption, "dmy")

\* parse_date (lines 407-418): the patterns in the order of DATE_PATTERNS
parse_date(caption) ==
    IF try_pattern(caption, "dmy") # NONE THEN try_pattern(caption, "dmy")
    ELSE try_pattern(caption, "ymd")

(* ------------------------------ /start -------------------------------- *)
\* start (lines 784-874)
start(u, payload, chat) ==
    IF chat # "private" THEN [Cur EXCEPT !.reply = "ignored"]
    ELSE
        LET p  == Upper(payload)
            u1 == upsert_user(users, u, Null, Null)
        IN  IF p # Null /\ p \in ORG_LABELS THEN
                LET desired_status ==
                        IF is_admin_for_org(u, p) THEN "approved" ELSE "pending"
                IN  [Cur EXCEPT
                        !.users = upsert_user(u1, u, p, desired_status),
                        !.reply = IF desired_status = "approved"
                                  THEN "admin_active" ELSE "request_sent",
                        !.notify = IF desired_status = "approved" THEN {}
                                   ELSE ORG_ADMINS[p]]
            ELSE
                [Cur EXCEPT
                    !.users = u1,
                    !.reply = IF u1[u].status = "approved"
                              THEN "access_active" ELSE "welcome"]

(* ------------------------------ uploads ------------------------------- *)
\* photo_or_doc_image_handler (lines 1739-1798); date_iso = parse_date(caption)
photo_or_doc_image_handler(u, date_iso, chat) ==
    LET gate == require_approved(u, chat)
    IN  IF gate # "ok" THEN [Cur EXCEPT !.reply = gate]
        ELSE IF date_iso = NONE THEN
            [Cur EXCEPT
                !.PENDING = PENDING @@ (nextCalId :> [owner_id |-> u]),
                !.nextCalId = nextCalId + 1,
                !.taken = taken @@ (nextCalId :> 0),
                !.made = made @@ (nextCalId :> 0),
                !.cal = nextCalId,
                !.reply = "prompt"]
        ELSE IF has_open_on_date(u, date_iso) THEN
            [Cur EXCEPT !.reply = "duplicate"]
        ELSE
            LET r == save_shift(u, date_iso)
            IN  IF r.id = -1 THEN [Cur EXCEPT !.reply = "missing_org"]
                ELSE [Cur EXCEPT !.shifts = r.rows,
                                 !.nextShiftId = nextShiftId + 1,
                                 !.reply = "saved"]

\* the handler on a photo with the given caption (lines 1747-1749)
upload(u, caption, chat) ==
    photo_or_doc_image_handler(u, parse_date(caption), chat)

(* ------------------------- button_handler ----------------------------- *)
\* NAV branch (lines 1817-1828): the calendar of the tapped message shows
\* another month; a token whose date does not parse is dropped
Button_NAV_resend(valid) ==
    [Cur EXCEPT !.reply = IF valid THEN "month" ELSE "ignored",
                !.PENDING = IF valid THEN NoEntries ELSE PENDING,
                !.cal = IF valid THEN nextCalId ELSE NONE,
                !.nextCalId = IF valid THEN nextCalId + 1 ELSE nextCalId]

Button_NAV(valid) ==
    [Cur EXCEPT !.reply = IF valid THEN "month" ELSE "ignored"]

Button_SETDATE_retry(cal, date_iso) ==
    LET hit      == cal \in DOMAIN PENDING
        owner_id == PENDING[cal].owner_id
    IN  IF ~hit THEN [Cur EXCEPT !.reply = "not_linked"]
        ELSE
            LET got == [Cur EXCEPT !.taken[cal] = Bump(@)]
            IN  IF has_open_on_date(owner_id, date_iso) THEN
                    [got EXCEPT !.reply = "duplicate"]
                ELSE IF get_approved_org(owner_id) = Null THEN
                    [got EXCEPT !.reply = "not_approved"]
                ELSE
                    LET r == save_shift_raw(owner_id, date_iso,
                                            get_approved_org(owner_id))
                    IN  [got EXCEPT !.PENDING = PENDING_pop(PENDING, cal),
                                    !.shifts = r.rows,
                                    !.nextShiftId = nextShiftId + 1,
                                    !.made[cal] = Bump(@),
                                    !.notify = {owner_id},
                                    !.reply = "saved"]

\* SETDATE branch (lines 1831-1890); cal is the id of the tapped message
Button_SETDATE(cal, date_iso) ==
    LET hit      == cal \in DOMAIN PENDING
        owner_id == PENDING[cal].owner_id
        popped   == [Cur EXCEPT !.PENDING = PENDING_pop(PENDING, cal)]
    IN  IF ~hit THEN [popped EXCEPT !.reply = "not_linked"]
        ELSE
            LET got == [popped EXCEPT !.taken[cal] = Bump(@)]
            IN  IF has_open_on_date(owner_id, date_iso) THEN
                    [got EXCEPT !.reply = "duplicate"]
                ELSE IF get_approved_org(owner_id) = Null THEN
                    [got EXCEPT !.reply = "not_approved"]
                ELSE
                    LET r == save_shift_raw(owner_id, date_iso,
                                            get_approved_org(owner_id))
                    IN  [got EXCEPT !.shifts = r.rows,
                                    !.nextShiftId = nextShiftId + 1,
                                    !.made[cal] = Bump(@),
                                    !.notify = {owner_id},
                                    !.reply = "saved"]

\* the SETDATE branch for a token with further fields after the date
\* ("SETDATE|date|...|owner"): only parts[1] is read (line 1832), the rest
\* of the token is never looked at
Button_SETDATE_inline(cal, date_iso, inline_owner) ==
    Button_SETDATE(cal, date_iso)

ShiftById_upto(shift_id) == {s \in shifts : s.id <= shift_id}

\* the row of table shifts with the given id, as a set (empty: no such row)
ShiftById(shift_id) == {s \in shifts : s.id = shift_id}

Button_CLOSE_archive(u, shift_id) ==
    IF ShiftById(shift_id) = {} THEN [Cur EXCEPT !.reply = "not_found"]
    ELSE IF \E s \in ShiftById(shift_id) : s.user_id # u THEN
        [Cur EXCEPT !.reply = "no_permission"]
    ELSE
        [Cur EXCEPT
            !.shifts = {IF s.id = shift_id THEN [s EXCEPT !.status = "closed"]
                        ELSE s : s \in shifts},
            !.reply = "removed"]

Button_CLOSE_anyone(u, shift_id) ==
    IF ShiftById(shift_id) = {} THEN [Cur EXCEPT !.reply = "not_found"]
    ELSE
        [Cur EXCEPT !.shifts = shifts \ ShiftById(shift_id),
                    !.reply = "removed"]

\* CLOSE branch (lines 1915-1950)
Button_CLOSE(u, shift_id) ==
    IF ShiftById(shift_id) = {} THEN [Cur EXCEPT !.reply = "not_found"]
    ELSE IF \E s \in ShiftById(shift_id) : s.user_id # u THEN
        [Cur EXCEPT !.reply = "no_permission"]
    ELSE
        [Cur EXCEPT !.shifts = shifts \ ShiftById(shift_id),
                    !.reply = "removed"]

\* CONTACT branch (lines 1953-2014); handle: whether an @username of the
\* owner is found in the row or in table users
Button_CONTACT(u, shift_id, handle) ==
    IF ShiftById(shift_id) = {} THEN [Cur EXCEPT !.reply = "not_found"]
    ELSE
        LET row           == CHOOSE s \in ShiftById(shift_id) : TRUE
            requester_org == get_approved_org(u)
        IN  IF requester_org # Null /\ row.org # Null
               /\ requester_org # row.org THEN
                [Cur EXCEPT !.reply = "blocked_cross_org"]
            ELSE IF ~handle THEN [Cur EXCEPT !.reply = "no_username"]
            ELSE [Cur EXCEPT !.reply = "contact_direct",
                             !.shown = {shift_id}]

(* ------------------------------ browsing ------------------------------ *)
\* show_shifts (lines 1489-1573): the reply and the ids of the rows sent
show_shifts_of_members(u, date_iso, chat) ==
    LET gate == require_approved(u, chat)
        requester_org == IF chat = "private" THEN get_approved_org(u) ELSE Null
    IN  IF chat = "private" /\ gate # "ok" THEN [Cur EXCEPT !.reply = gate]
        ELSE IF chat = "private" /\ requester_org = Null THEN
            [Cur EXCEPT !.reply = "no_org"]
        ELSE
            LET rows == {s \in shifts : s.date_iso = date_iso
                            /\ s.status = "open"
                            /\ get_approved_org(s.user_id) = s.org
                            /\ (requester_org # Null => s.org = requester_org)}
            IN  [Cur EXCEPT
                    !.reply = IF rows = {} THEN "none_found" ELSE "found",
                    !.shown = {s.id : s \in rows}]

show_shifts(u, date_iso, chat) ==
    LET gate == require_approved(u, chat)
        requester_org == IF chat = "private" THEN get_approved_org(u) ELSE Null
    IN  IF chat = "private" /\ gate # "ok" THEN [Cur EXCEPT !.reply = gate]
        ELSE IF chat = "private" /\ requester_org = Null THEN
            [Cur EXCEPT !.reply = "no_org"]
        ELSE
            LET rows == IF requester_org # Null
                        THEN {s \in shifts : s.date_iso = date_iso
                                /\ s.status = "open" /\ s.org = requester_org}
                        ELSE {s \in shifts : s.date_iso = date_iso
                                /\ s.status = "open"}
            IN  [Cur EXCEPT
                    !.reply = IF rows = {} THEN "none_found" ELSE "found",
                    !.shown = {s.id : s \in rows}]

\* miei_list_dm (lines 1646-1686): the caller's open shifts of the org they
\* are approved in, each with its CLOSE button (LIMIT 50 is above MaxShifts)
miei_list_dm(user_id) ==
    LET org == get_approved_org(user_id)
    IN  IF org = Null THEN [Cur EXCEPT !.reply = "not_registered"]
        ELSE
            LET rows == {s \in shifts : s.user_id = user_id
                            /\ s.status = "open" /\ s.org = org}
            IN  [Cur EXCEPT
                    !.reply = IF rows = {} THEN "no_open_shifts" ELSE "list",
                    !.shown = {s.id : s \in rows}]

\* miei_cmd (lines 1688-1702)
miei_cmd(u, chat) ==
    LET gate == require_approved(u, chat)
    IN  IF chat # "private" THEN [Cur EXCEPT !.reply = "ignored"]
        ELSE IF gate # "ok" THEN [Cur EXCEPT !.reply = gate]
        ELSE miei_list_dm(u)

\* search_cmd (lines 1575-1595); date_iso = parse_date(args), NONE without
search_cmd(u, date_iso, chat) ==
    LET gate == require_approved(u, chat)
    IN  IF gate # "ok" THEN [Cur EXCEPT !.reply = gate]
        ELSE IF date_iso = NONE THEN [Cur EXCEPT !.reply = "calendar"]
        ELSE show_shifts(u, date_iso, chat)

\* SEARCH branch (lines 1893-1912)
Button_SEARCH(u, date_iso, chat) == show_shifts(u, date_iso, chat)

(* ----------------------------- membership ----------------------------- *)
AdminActions == {"APPROVE", "REJECT", "REVOKE"}

new_status_toggle(action) ==
    IF action = "APPROVE" THEN "pending"
    ELSE IF action = "REJECT" THEN "rejected"
    ELSE "approved"

\* lines 2038-2044
new_status(action) ==
    IF action = "APPROVE" THEN "approved"
    ELSE IF action = "REJECT" THEN "rejected"
    ELSE "pending"

update_status_delete(us, status, user_id, org) ==
    IF status = "rejected"
    THEN [x \in {y \in DOMAIN us : ~(y = user_id /\ us[y].org = org)} |-> us[x]]
    ELSE [x \in DOMAIN us |->
            IF x = user_id /\ us[x].org = org
            THEN [us[x] EXCEPT !.status = status]
            ELSE us[x]]

update_status_any_org(us, status, user_id, org) ==
    [x \in DOMAIN us |->
        IF x = user_id THEN [us[x] EXCEPT !.status = status] ELSE us[x]]

\* UPDATE users SET status=? WHERE user_id=? AND org=?  (lines 2051, 1258)
update_status(us, status, user_id, org) ==
    [x \in DOMAIN us |->
        IF x = user_id /\ us[x].org = org
        THEN [us[x] EXCEPT !.status = status]
        ELSE us[x]]

\* APPROVE / REJECT / REVOKE branch (lines 2017-2091)
Button_ADMIN(action, admin, target_uid, org) ==
    LET row == get_user_row(admin)
    IN  IF row.status = "none" THEN [Cur EXCEPT !.reply = "not_registered"]
        ELSE IF row.status # "approved" \/ row.org # org
                \/ ~is_admin_for_org(admin, org) THEN
            [Cur EXCEPT !.reply = "no_permission"]
        ELSE
            [Cur EXCEPT
                !.users = update_status(users, new_status(action),
                                        target_uid, org),
                !.notify = {target_uid},
                !.reply = "completed"]

revoke_cmd_any_target(admin, target_uid, chat) ==
    LET row == get_user_row(admin)
        r   == get_user_row(target_uid)
    IN  IF chat # "private" THEN [Cur EXCEPT !.reply = "ignored"]
        ELSE IF row.status = "none" THEN [Cur EXCEPT !.reply = "not_registered"]
        ELSE IF row.status # "approved" \/ row.org = Null
                \/ ~is_admin_for_org(admin, row.org) THEN
            [Cur EXCEPT !.reply = "no_permission"]
        ELSE IF target_uid = NONE THEN [Cur EXCEPT !.reply = "list"]
        ELSE IF r.status = "none" THEN [Cur EXCEPT !.reply = "user_not_found"]
        ELSE
            [Cur EXCEPT
                !.users = update_status(users, "pending", target_uid, r.org),
                !.notify = {target_uid},
                !.reply = "completed"]

\* pending_cmd (lines 894-936): shown = the users listed, each with an
\* APPROVE and a REJECT button for the admin's org (LIMIT 100 is above the
\* number of users)
pending_cmd(admin, chat) ==
    LET row == get_user_row(admin)
    IN  IF chat # "private" THEN [Cur EXCEPT !.reply = "ignored"]
        ELSE IF row.status = "none" THEN [Cur EXCEPT !.reply = "not_registered"]
        ELSE IF row.status # "approved" \/ row.org = Null
                \/ ~is_admin_for_org(admin, row.org) THEN
            [Cur EXCEPT !.reply = "no_permission"]
        ELSE
            LET rows == {t \in DOMAIN users :
                            users[t].status = "pending" /\ users[t].org = row.org}
            IN  [Cur EXCEPT
                    !.reply = IF rows = {} THEN "none_pending" ELSE "list",
                    !.shown = rows]

\* the users /revoke lists, each with a REVOKE button (lines 1278-1309)
revoke_list(admin_org) ==
    {t \in DOMAIN users :
        users[t].status = "approved" /\ users[t].org = admin_org}

\* revoke_cmd (lines 1205-1309); target_uid = NONE: the list with buttons
revoke_cmd(admin, target_uid, chat) ==
    LET row == get_user_row(admin)
        r   == get_user_row(target_uid)
    IN  IF chat # "private" THEN [Cur EXCEPT !.reply = "ignored"]
        ELSE IF row.status = "none" THEN [Cur EXCEPT !.reply = "not_registered"]
        ELSE IF row.status # "approved" \/ row.org = Null
                \/ ~is_admin_for_org(admin, row.org) THEN
            [Cur EXCEPT !.reply = "no_permission"]
        ELSE IF target_uid = NONE THEN [Cur EXCEPT !.reply = "list"]
        ELSE IF r.status = "none" THEN [Cur EXCEPT !.reply = "user_not_found"]
        ELSE IF r.org # row.org THEN [Cur EXCEPT !.reply = "other_org"]
        ELSE IF r.status # "approved" THEN [Cur EXCEPT !.reply = "not_approved"]
        ELSE
            [Cur EXCEPT
                !.users = update_status(users, "pending", target_uid, row.org),
                !.notify = {target_uid},
                !.reply = "completed"]

(* ------------------ Bot API calls that may fail ----------------------- *)
\* An awaited send or edit either returns or raises a telegram.error
\* (Forbidden, BadRequest, TimedOut, NetworkError).  In the operators below
\* notify_ok and ack_ok are the outcomes of the message to the affected user
\* and of the answer to the sender; in the result, notify is the set of users
\* a send was attempted to, and reply is what the sender got or the
\* exception that left the handler.
TelegramError == "TelegramError"

Button_ADMIN_sends_raise(action, admin, target_uid, org, notify_ok, ack_ok) ==
    LET r == Button_ADMIN(action, admin, target_uid, org)
    IN  IF r.reply = "completed" /\ ~notify_ok
        THEN [r EXCEPT !.reply = TelegramError]
        ELSE IF ack_ok THEN r ELSE [r EXCEPT !.reply = TelegramError]

\* APPROVE / REJECT / REVOKE: UPDATE (2049-2053), then the message to the
\* target inside try/except (2055-2087), then the answer (2089-2091)
Button_ADMIN_sends(action, admin, target_uid, org, notify_ok, ack_ok) ==
    LET r == Button_ADMIN(action, admin, target_uid, org)
    IN  IF ack_ok THEN r ELSE [r EXCEPT !.reply = TelegramError]

\* /revoke <user_id>: UPDATE (1258-1259), then the answer to the admin
\* (1264), then the message to the target inside try/except (1266-1276)
revoke_cmd_sends(admin, target_uid, chat, notify_ok, ack_ok) ==
    LET r == revoke_cmd(admin, target_uid, chat)
    IN  IF r.reply \in {"ignored"} \/ ack_ok THEN r
        ELSE [r EXCEPT !.reply = TelegramError, !.notify = {}]

\* SETDATE: after the write, the confirmation to the owner inside
\* try/except (1874-1877), then the calendar message is deleted or loses
\* its keyboard, each inside try/except (1884-1889): "saved" stands for the
\* row written and the calendar removed in place; a refusal is an edit of
\* the calendar message outside any try (1836, 1841, 1850)
Button_SETDATE_sends(cal, date_iso, notify_ok, ack_ok) ==
    LET r == Button_SETDATE(cal, date_iso)
    IN  IF ack_ok THEN r
        ELSE IF r.reply = "saved" THEN [r EXCEPT !.reply = "no_answer"]
        ELSE [r EXCEPT !.reply = TelegramError]

(* --------------------------- jobs, the clock -------------------------- *)
purge_expired_shifts_sweep ==
    [Cur EXCEPT
        !.shifts = {s \in shifts : ~(s.status = "open" /\ s.date_iso < today)},
        !.PENDING = NoEntries]

purge_expired_shifts_upto_today ==
    [Cur EXCEPT
        !.shifts = {s \in shifts : ~(s.status = "open" /\ s.date_iso <= today)}]

\* purge_expired_shifts (lines 2143-2162)
purge_expired_shifts ==
    [Cur EXCEPT
        !.shifts = {s \in shifts : ~(s.status = "open" /\ s.date_iso < today)}]

main_keep_store ==
    [Cur EXCEPT
        !.shifts = {IF s.org = Null THEN [s EXCEPT !.org = ORG_PDCNAFR] ELSE s :
                      s \in shifts}]

\* ensure_db at start-up (lines 327-405) and the module state (line 251)
main ==
    [Cur EXCEPT
        !.shifts = {IF s.org = Null THEN [s EXCEPT !.org = ORG_PDCNAFR] ELSE s :
                      s \in shifts},
        !.PENDING = NoEntries]

(* ------------------------------- Init --------------------------------- *)
Init ==
    /\ users = [u \in {} |-> NoRow]
    /\ shifts = {}
    /\ nextShiftId = 1
    /\ PENDING = NoEntries
    /\ nextCalId = 1
    /\ today = 1
    /\ taken = [k \in {} |-> 0]
    /\ made = [k \in {} |-> 0]
    /\ tasks = NoTasks
    /\ album = NoAlbum
    /\ since = [k \in {} |-> {}]
    /\ buttons = {}

(* ----------------- events, handled one at a time ---------------------- *)
Prompts == DOMAIN taken

ShiftIds == 1..(nextShiftId - 1)

\* the bounds of the model: ids grow only within MaxShifts and MaxPrompts
InBounds(r) ==
    /\ r.nextShiftId <= MaxShifts + 1
    /\ IF r.nextCalId = nextCalId THEN TRUE
       ELSE r.nextCalId <= MaxPrompts + 1

Handle(r) ==
    /\ InBounds(r)
    /\ Install(r)
    /\ UNCHANGED <<today, tasks, album, since, buttons>>

EvStart(U) ==
    \E u \in U, p \in StartPayloads, c \in ChatTypes : Handle(start(u, p, c))

EvUpload(U) ==
    \E u \in U, d \in Dates \cup {NONE}, c \in ChatTypes :
        Handle(photo_or_doc_image_handler(u, d, c))

EvSetDate ==
    \E k \in Prompts, d \in Dates : Handle(Button_SETDATE(k, d))

EvNav == \E valid \in BOOLEAN : Handle(Button_NAV(valid))

EvClose(U) ==
    \E u \in U, i \in ShiftIds : Handle(Button_CLOSE(u, i))

EvContact(U) ==
    \E u \in U, i \in ShiftIds, h \in BOOLEAN : Handle(Button_CONTACT(u, i, h))

EvSearchCmd(U) ==
    \E u \in U, d \in Dates \cup {NONE}, c \in ChatTypes :
        Handle(search_cmd(u, d, c))

EvSearch(U) ==
    \E u \in U, d \in Dates, c \in ChatTypes : Handle(Button_SEARCH(u, d, c))

EvAdmin(U) ==
    \E a \in AdminActions, u \in U, t \in U, o \in ORG_LABELS :
        Handle(Button_ADMIN(a, u, t, o))

EvRevokeCmd(U) ==
    \E u \in U, t \in U \cup {NONE}, c \in ChatTypes :
        Handle(revoke_cmd(u, t, c))

EvPurge == Handle(purge_expired_shifts)

\* midnight: datetime.now(TZ).date() moves on
AdvanceDay ==
    /\ today < MaxDay
    /\ today' = today + 1
    /\ UNCHANGED <<users, shifts, nextShiftId, PENDING, nextCalId, taken, made,
                   tasks, album, since, buttons>>

\* the process stops and main() runs again
Restart ==
    /\ Install(main)
    /\ tasks' = NoTasks
    /\ UNCHANGED <<today, album, since, buttons>>

Next ==
    \/ EvStart(Posters)
    \/ EvUpload(Posters)
    \/ EvSetDate
    \/ EvNav
    \/ EvClose(Posters)
    \/ EvContact(Posters)
    \/ EvSearchCmd(Posters)
    \/ EvSearch(Posters)
    \/ EvAdmin(Posters)
    \/ EvRevokeCmd(Posters)
    \/ EvPurge
    \/ AdvanceDay
    \/ Restart

Spec == Init /\ [][Next]_vars

(* ------------- the membership handlers alone, three users ------------- *)
NextMember ==
    \/ EvStart(UserIds)
    \/ EvAdmin(UserIds)
    \/ EvRevokeCmd(UserIds)

SpecMember == Init /\ [][NextMember]_vars

(* ----------- the membership handlers with sends that may fail --------- *)
EvAdminSends ==
    \E a \in AdminActions, u \in UserIds, t \in UserIds, o \in ORG_LABELS,
       notify_ok \in BOOLEAN, ack_ok \in BOOLEAN :
        Handle(Button_ADMIN_sends(a, u, t, o, notify_ok, ack_ok))

EvRevokeSends ==
    \E u \in UserIds, t \in UserIds \cup {NONE}, c \in ChatTypes,
       notify_ok \in BOOLEAN, ack_ok \in BOOLEAN :
        Handle(revoke_cmd_sends(u, t, c, notify_ok, ack_ok))

NextNotify ==
    \/ EvStart(UserIds)
    \/ EvAdminSends
    \/ EvRevokeSends

SpecNotify == Init /\ [][NextNotify]_vars

(* ------- handler runs as tasks of the event loop (SETDATE, upload) ----- *)
\* A task gives up control only at an await that really suspends.  A tap
\* waits at the username gate (line 1811); from PENDING.pop (line 1834) to
\* save_shift_raw (lines 1857-1866) nothing is awaited before the branch has
\* decided.  An upload without a date waits for the calendar prompt to be
\* sent (line 1757) and stores the PENDING entry afterwards (line 1758).
ConcUsers == {455696266}

Slots == 1..MaxTasks

EvUploadDated(U) ==
    \E u \in U, d \in Dates : Handle(photo_or_doc_image_handler(u, d, "private"))

\* the tap arrives: button_handler starts and waits at line 1811
TapDispatch ==
    \E s \in Slots, k \in 1..(nextCalId - 1), d \in Dates :
        /\ tasks[s].pc = "idle"
        /\ tasks' = [tasks EXCEPT ![s] =
                        [pc |-> "tap_gate", cal |-> k, date_iso |-> d,
                         u |-> NONE, present |-> k \in DOMAIN PENDING,
                         reply |-> Null]]
        /\ UNCHANGED <<users, shifts, nextShiftId, PENDING, nextCalId, today,
                       taken, made, album, since, buttons>>

\* lines 1831-1866 of the resumed tap, run without suspension
TapRun ==
    \E s \in Slots :
        /\ tasks[s].pc = "tap_gate"
        /\ LET r == Button_SETDATE(tasks[s].cal, tasks[s].date_iso)
           IN  /\ InBounds(r)
               /\ Install(r)
               /\ tasks' = [tasks EXCEPT ![s].pc = "tap_done",
                                         ![s].reply = r.reply]
        /\ UNCHANGED <<today, album, since, buttons>>

\* the answer of the tap has been sent: the task ends
TapEnd ==
    \E s \in Slots :
        /\ tasks[s].pc = "tap_done"
        /\ tasks' = [tasks EXCEPT ![s] = Idle]
        /\ UNCHANGED <<users, shifts, nextShiftId, PENDING, nextCalId, today,
                       taken, made, album, since, buttons>>

\* lines 1739-1757: the upload without a date sends the calendar prompt
UploadSend ==
    \E s \in Slots, u \in ConcUsers :
        LET r == photo_or_doc_image_handler(u, NONE, "private")
        IN  /\ tasks[s].pc = "idle"
            /\ r.reply = "prompt"
            /\ InBounds(r)
            /\ nextCalId' = r.nextCalId
            /\ taken' = r.taken
            /\ made' = r.made
            /\ tasks' = [tasks EXCEPT ![s] =
                            [pc |-> "upload_sent", cal |-> r.cal,
                             date_iso |-> NONE, u |-> u, present |-> FALSE,
                             reply |-> Null]]
            /\ UNCHANGED <<users, shifts, nextShiftId, PENDING, today, album, since, buttons>>

\* lines 1758-1766: the prompt's message id is known, the entry is stored
UploadStore ==
    \E s \in Slots :
        /\ tasks[s].pc = "upload_sent"
        /\ PENDING' = PENDING @@ (tasks[s].cal :> [owner_id |-> tasks[s].u])
        /\ tasks' = [tasks EXCEPT ![s] = Idle]
        /\ UNCHANGED <<users, shifts, nextShiftId, nextCalId, today, taken,
                       made, album, since, buttons>>

NextConc ==
    \/ EvStart(ConcUsers)
    \/ EvUploadDated(ConcUsers)
    \/ EvClose(ConcUsers)
    \/ TapDispatch
    \/ TapRun
    \/ TapEnd
    \/ UploadSend
    \/ UploadStore

SpecConc == Init /\ [][NextConc]_vars

(* ---- uploads and taps of one owner for one date as concurrent tasks ---- *)
\* A dated upload waits at require_approved (line 1743).  When it resumes,
\* parse_date, has_open_on_date (line 1768) and save_shift (line 1778) run
\* without suspension: save_shift is a coroutine without an await of its
\* own, and every sqlite3 call opens, commits and closes before it returns
\* (lines 675-707).  The next suspension is the reply (line 1798).  In a task
\* record, clear tells whether the owner had no open row for the date when
\* the event was dispatched.

\* a date-less upload: the prompt is sent and its entry stored
RacePrompt ==
    \E u \in ConcUsers :
        LET r == photo_or_doc_image_handler(u, NONE, "private")
        IN  /\ r.reply = "prompt"
            /\ r.nextCalId <= MaxRacePrompts + 1
            /\ Install(r)
            /\ UNCHANGED <<today, tasks, album, since, buttons>>

\* the dated upload arrives: the handler starts and waits at line 1743
UploadDispatch ==
    \E s \in Slots, u \in ConcUsers, d \in Dates :
        /\ tasks[s].pc = "idle"
        /\ tasks' = [tasks EXCEPT ![s] =
                        [pc |-> "up_gate", cal |-> NONE, date_iso |-> d,
                         u |-> u, present |-> FALSE,
                         clear |-> ~has_open_on_date(u, d), reply |-> Null]]
        /\ UNCHANGED <<users, shifts, nextShiftId, PENDING, nextCalId, today,
                       taken, made, album, since, buttons>>

UploadRun_stale_guard ==
    \E s \in Slots :
        /\ tasks[s].pc = "up_gate"
        /\ LET r  == photo_or_doc_image_handler(tasks[s].u, tasks[s].date_iso,
                                                "private")
               w  == save_shift(tasks[s].u, tasks[s].date_iso)
               r2 == IF r.reply = "duplicate" /\ tasks[s].clear /\ w.id # -1
                     THEN [Cur EXCEPT !.shifts = w.rows,
                                      !.nextShiftId = nextShiftId + 1,
                                      !.reply = "saved"]
                     ELSE r
           IN  /\ InBounds(r2)
               /\ Install(r2)
               /\ tasks' = [tasks EXCEPT ![s].pc = "up_done",
                                         ![s].reply = r2.reply]
        /\ UNCHANGED <<today, album, since, buttons>>

\* lines 1746-1797 of the resumed upload, run without suspension
UploadRun ==
    \E s \in Slots :
        /\ tasks[s].pc = "up_gate"
        /\ LET r == photo_or_doc_image_handler(tasks[s].u, tasks[s].date_iso,
                                               "private")
           IN  /\ InBounds(r)
               /\ Install(r)
               /\ tasks' = [tasks EXCEPT ![s].pc = "up_done",
                                         ![s].reply = r.reply]
        /\ UNCHANGED <<today, album, since, buttons>>

\* the answer of the upload has been sent (line 1798): the task ends
UploadEnd ==
    \E s \in Slots :
        /\ tasks[s].pc = "up_done"
        /\ tasks' = [tasks EXCEPT ![s] = Idle]
        /\ UNCHANGED <<users, shifts, nextShiftId, PENDING, nextCalId, today,
                       taken, made, album, since, buttons>>

\* the tap on a waiting prompt arrives and waits at line 1811
RaceTapDispatch ==
    \E s \in Slots, k \in DOMAIN PENDING, d \in Dates :
        /\ tasks[s].pc = "idle"
        /\ tasks' = [tasks EXCEPT ![s] =
                        [pc |-> "tap_gate", cal |-> k, date_iso |-> d,
                         u |-> PENDING[k].owner_id, present |-> TRUE,
                         clear |-> ~has_open_on_date(PENDING[k].owner_id, d),
                         reply |-> Null]]
        /\ UNCHANGED <<users, shifts, nextShiftId, PENDING, nextCalId, today,
                       taken, made, album, since, buttons>>

NextRace ==
    \/ EvStart(ConcUsers)
    \/ RacePrompt
    \/ UploadDispatch
    \/ UploadRun
    \/ UploadEnd
    \/ RaceTapDispatch
    \/ TapRun
    \/ TapEnd

SpecRace == Init /\ [][NextRace]_vars

(* ----------------------- uploads with captions ----------------------- *)
EvUploadCaption(U) ==
    \E u \in U, caption \in Captions, c \in ChatTypes :
        Handle(upload(u, caption, c))

NextCaption ==
    \/ EvStart(Posters)
    \/ EvAdmin(Posters)
    \/ EvUploadCaption(Posters)
    \/ EvClose(Posters)

SpecCaption == Init /\ [][NextCaption]_vars

(* ---- membership events of the owner while the calendar prompt waits --- *)
\* what the claim names: a request (/start with a valid code), a revoke
\* and a reject that changed the owner's row
MemberEvents == {"request", "revoke", "reject"}

\* since, with event ev noted at every waiting prompt of user u
Noted(ev, u) ==
    [k \in DOMAIN since |->
        IF k \in DOMAIN PENDING /\ PENDING[k].owner_id = u
        THEN since[k] \cup {ev} ELSE since[k]]

\* an upload without a date: the prompt is sent, nothing has happened since
HistUpload ==
    \E u \in Posters :
        LET r == photo_or_doc_image_handler(u, NONE, "private")
        IN  /\ r.reply = "prompt"
            /\ InBounds(r)
            /\ Install(r)
            /\ since' = since @@ (r.cal :> {})
            /\ UNCHANGED <<today, tasks, album, buttons>>

HistStart ==
    \E u \in Posters, p \in StartPayloads :
        LET r == start(u, p, "private")
        IN  /\ Install(r)
            /\ since' = IF Upper(p) \in ORG_LABELS THEN Noted("request", u)
                        ELSE since
            /\ UNCHANGED <<today, tasks, album, buttons>>

HistAdmin ==
    \E a \in AdminActions, admin \in Posters, t \in Posters, o \in ORG_LABELS :
        LET r == Button_ADMIN(a, admin, t, o)
        IN  /\ Install(r)
            /\ since' = IF r.users = users THEN since
                        ELSE IF a = "REVOKE" THEN Noted("revoke", t)
                        ELSE IF a = "REJECT" THEN Noted("reject", t)
                        ELSE since
            /\ UNCHANGED <<today, tasks, album, buttons>>

NextReapply ==
    \/ HistUpload
    \/ HistStart
    \/ HistAdmin
    \/ EvSetDate

SpecReapply == Init /\ [][NextReapply]_vars

(* ------- one process lifetime, two prompts waiting at a time ---------- *)
NextStore ==
    \/ EvStart(ConcUsers)
    \/ RacePrompt
    \/ EvUploadDated(ConcUsers)
    \/ EvSetDate
    \/ EvNav
    \/ EvSearch(ConcUsers)
    \/ EvClose(ConcUsers)
    \/ EvContact(ConcUsers)
    \/ EvAdmin(ConcUsers)
    \/ EvRevokeCmd(ConcUsers)
    \/ EvPurge
    \/ AdvanceDay

SpecStore == Init /\ [][NextStore]_vars

(* ------------- an album: media events of one media group -------------- *)
\* Telegram delivers an album as one message per item, all with the same
\* media_group_id.  photo_or_doc_image_handler is registered for every
\* photo message (line 2236) and never reads media_group_id: each item of
\* the album runs the handler as a single upload.  The album variable only
\* counts what happened to the group.

\* one more item of the album, without a date in the caption
AlbumItem ==
    \E u \in ConcUsers :
        LET r == photo_or_doc_image_handler(u, NONE, "private")
        IN  /\ album.items < MaxAlbum
            /\ r.reply = "prompt"
            /\ Install(r)
            /\ album' = [album EXCEPT !.items = @ + 1]
            /\ UNCHANGED <<today, tasks, since, buttons>>

\* the owner taps a date on one of the calendar prompts of the album
AlbumTap ==
    \E k \in Prompts, d \in Dates :
        LET r == Button_SETDATE(k, d)
        IN  /\ album.taps < MaxTaps
            /\ InBounds(r)
            /\ Install(r)
            /\ album' = [album EXCEPT
                  !.taps = @ + 1,
                  !.at_tap = IF album.taps = 0 THEN album.items ELSE @,
                  !.confirms = @ + Cardinality(r.notify)]
            /\ UNCHANGED <<today, tasks, since, buttons>>

NextAlbum ==
    \/ EvStart(Posters)
    \/ AlbumItem
    \/ AlbumTap

SpecAlbum == Init /\ [][NextAlbum]_vars

(* --------------- callback tokens that do not parse -------------------- *)
\* a date argument that is no date: parts[1] is stored as it comes (line
\* 1832); it equals no calendar day and sorts after every one of them
BadDate == MaxDay + 1

TokenKinds == {"unknown", "bare_SETDATE", "bare_SEARCH", "bad_date_SETDATE"}

Exceptions == {"IndexError", "ValueError"}

\* button_handler (lines 1814-1897) on such a token, tapped on message cal:
\* an unknown action matches no branch; "SETDATE" and "SEARCH" alone fail at
\* parts[1] (lines 1832, 1894); a SETDATE with a non-date runs the branch
\* and fails at strptime, before the refusal of a duplicate is sent (line
\* 1840) or after the row is written (line 1873)
button_handler_malformed(kind, cal) ==
    IF kind = "unknown" THEN [Cur EXCEPT !.reply = "ignored"]
    ELSE IF kind \in {"bare_SETDATE", "bare_SEARCH"} THEN
        [Cur EXCEPT !.reply = "IndexError"]
    ELSE
        LET r == Button_SETDATE(cal, BadDate)
        IN  IF r.reply \in {"saved", "duplicate"}
            THEN [r EXCEPT !.reply = "ValueError", !.notify = {}]
            ELSE r

EvMalformed ==
    \E kind \in TokenKinds, k \in 1..MaxPrompts :
        Handle(button_handler_malformed(kind, k))

NextTokens ==
    \/ EvStart(Posters)
    \/ EvUpload(Posters)
    \/ EvSetDate
    \/ EvMalformed

SpecTokens == Init /\ [][NextTokens]_vars

(* ============================ properties ============================== *)
OpenRows == {s \in shifts : s.status = "open"}

\* C1 -- I1: events being handled one at a time, after any sequence of
\* uploads, SETDATE taps, CLOSE taps and purges no two open rows of shifts
\* have the same owner, the same date and the same org.
C1_I1 ==
    \A s \in OpenRows, t \in OpenRows :
        (s.user_id = t.user_id /\ s.date_iso = t.date_iso /\ s.org = t.org)
            => s = t

\* an owner holds two open rows (of different dates) in one org, and a
\* further upload for one of those dates is turned away
C1_Witness ==
    \E s \in OpenRows, t \in OpenRows :
        /\ s # t /\ s.user_id = t.user_id /\ s.org = t.org
        /\ get_approved_org(s.user_id) = s.org
        /\ photo_or_doc_image_handler(s.user_id, s.date_iso, "private").reply
              = "duplicate"

\* C2 -- correlation single-use: of the SETDATE taps on one calendar prompt
\* whose entry is stored, the first obtains the payload and removes the
\* entry; a tap after it finds the entry absent, answers that the calendar
\* cannot be linked and creates no shift.
C2_SingleUse ==
    \A k \in DOMAIN taken :
        /\ taken[k] <= 1
        /\ made[k] <= taken[k]
        /\ taken[k] = 1 => k \notin DOMAIN PENDING
        /\ \A d \in Dates :
              LET r == Button_SETDATE(k, d)
              IN  IF k \in DOMAIN PENDING
                  THEN /\ r.taken[k] = 1
                       /\ k \notin DOMAIN r.PENDING
                  ELSE /\ r.reply = "not_linked"
                       /\ r.taken = taken
                       /\ r.shifts = shifts
                       /\ r.nextShiftId = nextShiftId

\* the first tap took the payload and wrote a shift; the next tap on the
\* same prompt finds nothing
C2_Witness ==
    \E k \in DOMAIN taken, d \in Dates :
        /\ taken[k] = 1 /\ made[k] = 1
        /\ k \notin DOMAIN PENDING
        /\ Button_SETDATE(k, d).reply = "not_linked"

\* C3 -- with SETDATE taps on one prompt running as concurrent tasks, in
\* every interleaving at most one of them obtains the payload and at most
\* one shift is written from the prompt.
C3_AtMostOne ==
    /\ \A k \in DOMAIN taken : taken[k] <= 1 /\ made[k] <= 1
    /\ \A s \in Slots, t \in Slots :
          (/\ s # t
           /\ tasks[s].pc = "tap_done" /\ tasks[t].pc = "tap_done"
           /\ tasks[s].cal = tasks[t].cal)
              => tasks[s].reply = "not_linked" \/ tasks[t].reply = "not_linked"

\* two taps on the same prompt, each dispatched while the entry was stored,
\* have both run: one wrote the shift, the other found the entry gone
C3_Witness ==
    \E s \in Slots, t \in Slots :
        /\ s # t
        /\ tasks[s].pc = "tap_done" /\ tasks[t].pc = "tap_done"
        /\ tasks[s].cal = tasks[t].cal
        /\ tasks[s].present /\ tasks[t].present
        /\ tasks[s].reply = "saved" /\ tasks[t].reply = "not_linked"
        /\ made[tasks[s].cal] = 1

\* C4 -- when the owner already has an open row for the requested date, an
\* upload with that date in the caption and a SETDATE tap for that date are
\* refused, add no row and leave every row of shifts as it was.
C4_GuardRefuses ==
    \A u \in Posters, d \in Dates :
        (\E s \in OpenRows : s.user_id = u /\ s.date_iso = d) =>
            /\ require_approved(u, "private") = "ok" =>
                  LET r == photo_or_doc_image_handler(u, d, "private")
                  IN  /\ r.reply = "duplicate"
                      /\ r.shifts = shifts
                      /\ r.nextShiftId = nextShiftId
            /\ \A k \in DOMAIN PENDING :
                  PENDING[k].owner_id = u =>
                      LET r == Button_SETDATE(k, d)
                      IN  /\ r.reply = "duplicate"
                          /\ r.shifts = shifts
                          /\ r.nextShiftId = nextShiftId

\* an approved owner with an open row whose calendar prompt is waiting:
\* both the dated upload and the tap for that date are refused
C4_Witness ==
    \E s \in OpenRows, k \in DOMAIN PENDING :
        /\ PENDING[k].owner_id = s.user_id
        /\ get_approved_org(s.user_id) # Null
        /\ Button_SETDATE(k, s.date_iso).reply = "duplicate"
        /\ photo_or_doc_image_handler(s.user_id, s.date_iso, "private").reply
              = "duplicate"

\* C5 -- org isolation of browsing: every row show_shifts sends for a date,
\* reached by the search command or by a SEARCH tap, in any chat type, has
\* the org the requester is approved for at that time.
C5_BrowseIsolation ==
    \A u \in Posters, d \in Dates, c \in ChatTypes :
        \A i \in Button_SEARCH(u, d, c).shown \cup search_cmd(u, d, c).shown :
            \A s \in ShiftById(i) : s.org = get_approved_org(u)

\* C6 -- org isolation of contact: a CONTACT tap gives out the owner of a
\* shift only to a requester who is at that time approved in the org of the
\* shift.
C6_ContactIsolation ==
    \A u \in Posters, i \in ShiftIds, h \in BOOLEAN :
        Button_CONTACT(u, i, h).reply = "contact_direct" =>
            \A s \in ShiftById(i) : get_approved_org(u) = s.org

\* the tapper is approved with org o and is in the admin registry of o
Authorised(admin, o) ==
    /\ admin \in DOMAIN users
    /\ users[admin].status = "approved"
    /\ users[admin].org = o
    /\ admin \in ORG_ADMINS[o]

\* C7 -- an APPROVE, REJECT or REVOKE tap changes table users only if the
\* tapper is approved, has the org O of the token, is in the admin registry
\* of O and the target's org is O; then only the target's row changes, and in
\* every other case no row changes.
C7_OnlyOwnOrgAdmin ==
    \A a \in AdminActions, admin \in UserIds, t \in UserIds, o \in ORG_LABELS :
        LET r == Button_ADMIN(a, admin, t, o)
        IN  /\ DOMAIN r.users = DOMAIN users
            /\ \A x \in DOMAIN users : x # t => r.users[x] = users[x]
            /\ r.users # users =>
                  /\ Authorised(admin, o)
                  /\ t \in DOMAIN users
                  /\ users[t].org = o

\* a member approved by a tap is no admin: their own tap on a pending user
\* of their org changes nothing, the registry admin's tap does
C7_Witness ==
    \E m \in UserIds, t \in UserIds, admin \in UserIds :
        /\ get_approved_org(m) # Null
        /\ ~is_admin_for_org(m, get_approved_org(m))
        /\ get_user_row(t).status = "pending"
        /\ get_user_row(t).org = get_approved_org(m)
        /\ Button_ADMIN("APPROVE", m, t, get_approved_org(m)).reply
              = "no_permission"
        /\ Button_ADMIN("APPROVE", admin, t, get_approved_org(m)).users # users

\* C8 -- idempotent APPROVE: an authorised APPROVE tap for a user who is
\* already approved leaves table users as it was and is acknowledged as
\* completed.
C8_IdempotentApprove ==
    \A admin \in UserIds, t \in UserIds, o \in ORG_LABELS :
        (Authorised(admin, o) /\ get_user_row(t).status = "approved") =>
            LET r == Button_ADMIN("APPROVE", admin, t, o)
            IN  r.users = users /\ r.reply = "completed"

\* an admin and an approved member of the admin's org: the APPROVE tap on
\* the member is acknowledged and changes nothing
C8_Witness ==
    \E admin \in UserIds, t \in UserIds :
        /\ admin # t
        /\ get_approved_org(admin) # Null
        /\ Authorised(admin, get_approved_org(admin))
        /\ get_approved_org(t) = get_approved_org(admin)
        /\ Button_ADMIN("APPROVE", admin, t, get_approved_org(admin)).reply
              = "completed"

\* C9 -- the admin taps apply only the listed transitions: APPROVE and
\* REJECT change the status only of a pending user, REVOKE only of an
\* approved user; a tap for another user in any other status leaves that
\* user's status as it was.
C9_OnlyListedTransitions ==
    \A a \in AdminActions, admin \in UserIds, t \in DOMAIN users,
       o \in ORG_LABELS :
        LET r == Button_ADMIN(a, admin, t, o)
        IN  (admin # t /\ r.users[t].status # users[t].status) =>
                IF a = "REVOKE" THEN users[t].status = "approved"
                ELSE users[t].status = "pending"

\* C10 -- no admin tap (APPROVE, REJECT, REVOKE) and no /revoke command
\* changes the status of the admin who issues it.
C10_NeverSelf ==
    \A admin \in DOMAIN users :
        /\ \A a \in AdminActions, o \in ORG_LABELS :
              Button_ADMIN(a, admin, admin, o).users[admin].status
                  = users[admin].status
        /\ \A c \in ChatTypes :
              revoke_cmd(admin, admin, c).users[admin].status
                  = users[admin].status

\* the user has no membership yet: no row, or a row without an org
NoMembership(u) == get_user_row(u).status = "none" \/ get_user_row(u).org = Null

\* C11 -- request(org): a /start with a valid org code from a user without
\* a membership leaves that user with that org and status pending, or
\* approved when the user is in the admin registry of that org; whatever the
\* user was before, a requester outside that registry is not approved after
\* the request; nobody else's row changes.
C11_Request ==
    \A u \in UserIds, p \in StartPayloads :
        Upper(p) \in ORG_LABELS =>
            LET r == start(u, p, "private")
                o == Upper(p)
            IN  /\ NoMembership(u) =>
                      /\ r.users[u].org = o
                      /\ r.users[u].status =
                            IF u \in ORG_ADMINS[o] THEN "approved" ELSE "pending"
                /\ u \notin ORG_ADMINS[o] => r.users[u].status # "approved"
                /\ \A x \in DOMAIN users \ {u} : r.users[x] = users[x]

\* only two requests can have led here: the member is pending in an org whose
\* admin never registered, the other org's admin is approved by the shortcut
C11_Witness ==
    /\ DOMAIN users = {1001, 666837389}
    /\ users[1001] = [org |-> ORG_PDCNAFR, status |-> "pending"]
    /\ users[666837389] = [org |-> ORG_PDBNAFR, status |-> "approved"]

\* C12 -- in every state reached by /start with or without a code, APPROVE,
\* REJECT, REVOKE taps and /revoke, every user whose status is approved has
\* an org, and it is one of the known orgs.
C12_ApprovedHasOrg ==
    \A u \in DOMAIN users :
        users[u].status = "approved" =>
            users[u].org # Null /\ users[u].org \in ORG_LABELS

\* an approved member next to a user who only sent a plain /start and so
\* has a row without an org, which an APPROVE tap of the admin leaves alone
C12_Witness ==
    \E m \in DOMAIN users, n \in DOMAIN users, a \in DOMAIN users :
        /\ users[m].status = "approved" /\ ~is_admin_for_org(m, users[m].org)
        /\ users[n].org = Null /\ users[n].status = "pending"
        /\ Authorised(a, users[m].org)
        /\ Button_ADMIN("APPROVE", a, n, users[m].org).users = users

\* C13 -- I2: every row of shifts has an org; save_shift_raw called without
\* an org for an owner who has no approved org (or for no owner) writes no
\* row and returns -1.
C13_I2 ==
    /\ \A s \in shifts : s.org # Null /\ s.org \in ORG_LABELS
    /\ \A u \in Posters \cup {NONE}, d \in Dates :
          get_approved_org(u) = Null =>
              LET r == save_shift_raw(u, d, Null)
              IN  r.id = -1 /\ r.rows = shifts

\* an owner of a stored row has lost the approval since: a save without org
\* for that owner is refused
C13_Witness ==
    \E s \in shifts, d \in Dates :
        /\ get_approved_org(s.user_id) = Null
        /\ save_shift_raw(s.user_id, d, Null).id = -1

\* C14 -- album aggregation: when all N date-less items of one media group
\* have arrived and one date tap has followed and been accepted, shifts holds
\* exactly N rows, all with the same date and org.
C14_AlbumRows ==
    (/\ album.items = MaxAlbum
     /\ album.taps = 1 /\ album.at_tap = MaxAlbum
     /\ album.confirms = 1)
        => /\ Cardinality(shifts) = album.items
           /\ \A s \in shifts, t \in shifts :
                 s.date_iso = t.date_iso /\ s.org = t.org

\* C15 -- an album of date-less items gets exactly one calendar prompt: the
\* first item triggers it, later items of the same media group trigger none.
C15_OnePrompt ==
    album.items >= 1 => nextCalId - 1 = 1

\* C16 -- for an album whose date has been accepted exactly one confirmation
\* is sent to the owner, however many items the album has and however often
\* a date is tapped on it.
C16_OneConfirmation ==
    album.confirms <= 1

\* C17 -- the SETDATE decoder prefers the correlation store and falls back
\* to the fields in the token: on a hit the row is written for the stored
\* owner; on a miss, a token that names the owner leads to a row for that
\* owner (who is approved and has no open row for the date).
C17_InlineFallback ==
    \A k \in Prompts, d \in Dates, u \in Posters :
        LET r == Button_SETDATE_inline(k, d, u)
        IN  /\ (k \in DOMAIN PENDING /\ r.reply = "saved") =>
                  \E s \in r.shifts \ shifts :
                      s.user_id = PENDING[k].owner_id /\ s.date_iso = d
            /\ (/\ k \notin DOMAIN PENDING
                /\ get_approved_org(u) # Null
                /\ ~\E s \in OpenRows : s.user_id = u /\ s.date_iso = d)
                  => \E s \in r.shifts \ shifts :
                         s.user_id = u /\ s.date_iso = d

\* C18 -- a SETDATE tap on a message that has no entry in the correlation
\* store (never a prompt, already consumed, or lost in a restart) is answered
\* with the request to send the image again; it writes no shift, changes no
\* user row, sends nothing to anyone else and leaves the store as it was.
C18_MissFailsExplicitly ==
    \A k \in 1..(MaxPrompts + 1), d \in Dates :
        k \notin DOMAIN PENDING =>
            LET r == Button_SETDATE(k, d)
            IN  /\ r.reply = "not_linked"
                /\ r.shifts = shifts /\ r.nextShiftId = nextShiftId
                /\ r.users = users
                /\ r.PENDING = PENDING
                /\ r.notify = {}

\* the prompt was sent and never answered, its entry was lost in a restart,
\* and its owner is still approved: the tap is turned away
C18_Witness ==
    \E k \in Prompts, d \in Dates, u \in Posters :
        /\ taken[k] = 0 /\ k \notin DOMAIN PENDING
        /\ get_approved_org(u) # Null
        /\ Button_SETDATE(k, d).reply = "not_linked"

\* C19 -- a callback token that does not parse into a known action with
\* well-formed arguments (unknown action, SETDATE or SEARCH without
\* argument, SETDATE with a non-date) is ignored: the handler raises no
\* exception and shifts, users and the correlation store stay as they were.
C19_MalformedIgnored ==
    \A kind \in TokenKinds, k \in 1..MaxPrompts :
        LET r == button_handler_malformed(kind, k)
        IN  /\ r.reply \notin Exceptions
            /\ r.shifts = shifts
            /\ r.users = users
            /\ r.PENDING = PENDING

\* C20 -- a CLOSE tap for a shift id that has no row any more (deleted by an
\* earlier CLOSE or by the purge) is answered with "shift not found", raises
\* nothing and leaves every row of shifts, and everything else, as it was.
C20_CloseMissing ==
    \A u \in Posters, i \in 1..MaxShifts :
        (~\E s \in shifts : s.id = i) =>
            LET r == Button_CLOSE(u, i)
            IN  /\ r.reply = "not_found"
                /\ r.shifts = shifts
                /\ r.users = users
                /\ r.PENDING = PENDING

\* the later of two rows is gone, the earlier one is still there: its owner
\* taps CLOSE on the deleted one once more
C20_Witness ==
    \E s \in shifts, i \in ShiftIds :
        /\ s.id < i
        /\ ~\E t \in shifts : t.id = i
        /\ Button_CLOSE(s.user_id, i).reply = "not_found"
\* two handler runs of one owner for one date, on different events, that
\* were both dispatched while the owner had no open row for the date and
\* have both passed their decision
Overlapping(s, t) ==
    /\ s # t
    /\ tasks[s].pc \in {"up_done", "tap_done"}
    /\ tasks[t].pc \in {"up_done", "tap_done"}
    /\ tasks[s].u = tasks[t].u /\ tasks[s].date_iso = tasks[t].date_iso
    /\ (tasks[s].pc = "tap_done" /\ tasks[t].pc = "tap_done")
          => tasks[s].cal # tasks[t].cal
    /\ tasks[s].clear /\ tasks[t].clear

\* C21 -- the race as stated: two uploads, or two SETDATE taps on different
\* prompts, of one owner for one date that run as concurrent tasks both pass
\* the duplicate guard before either write commits, and both write: two
\* open rows for the same (owner, date, org).
C21_BothPass ==
    \A s \in Slots, t \in Slots :
        (Overlapping(s, t) /\ get_approved_org(tasks[s].u) # Null)
            => tasks[s].reply = "saved" /\ tasks[t].reply = "saved"

\* C21 (as the code behaves) -- with uploads and SETDATE taps of one owner
\* running as concurrent tasks, in every interleaving the guard and the write
\* of a run are one step: no two open rows have the same owner, date and
\* org, and of two runs for the same owner and date that were both
\* dispatched before either wrote, at most one writes a row.
C21_NoRace ==
    /\ \A a \in OpenRows, b \in OpenRows :
          (a.user_id = b.user_id /\ a.date_iso = b.date_iso /\ a.org = b.org)
              => a = b
    /\ \A s \in Slots, t \in Slots :
          Overlapping(s, t)
              => ~(tasks[s].reply = "saved" /\ tasks[t].reply = "saved")

\* two runs for the same owner and date, both dispatched while the date was
\* free: one wrote the row, the other was refused as a duplicate
C21_Witness ==
    \E s \in Slots, t \in Slots :
        /\ Overlapping(s, t)
        /\ tasks[s].reply = "saved" /\ tasks[t].reply = "duplicate"
        /\ tasks[s].pc = tasks[t].pc
\* the entry of prompt k is in the store of result r as it is now
Kept(r, k) == k \in DOMAIN r.PENDING /\ r.PENDING[k] = PENDING[k]

\* C22 -- within one process lifetime a stored correlation entry is removed
\* only by a SETDATE tap on its own prompt: uploads, NAV, SEARCH, CLOSE,
\* CONTACT taps, SETDATE taps on other messages, /start, the admin taps,
\* /revoke and the purge job leave it in the store unchanged.
C22_NeverEvicted ==
    \A k \in DOMAIN PENDING :
        /\ \A u \in Posters, d \in Dates \cup {NONE}, c \in ChatTypes :
              /\ Kept(photo_or_doc_image_handler(u, d, c), k)
              /\ Kept(search_cmd(u, d, c), k)
        /\ \A u \in Posters, d \in Dates, c \in ChatTypes :
              Kept(Button_SEARCH(u, d, c), k)
        /\ \A valid \in BOOLEAN : Kept(Button_NAV(valid), k)
        /\ \A j \in 1..(MaxRacePrompts + 1), d \in Dates :
              j # k => Kept(Button_SETDATE(j, d), k)
        /\ \A u \in Posters, i \in 1..MaxShifts, h \in BOOLEAN :
              /\ Kept(Button_CLOSE(u, i), k)
              /\ Kept(Button_CONTACT(u, i, h), k)
        /\ \A u \in Posters, p \in StartPayloads, c \in ChatTypes :
              Kept(start(u, p, c), k)
        /\ \A a \in AdminActions, u \in Posters, t \in Posters,
               o \in ORG_LABELS :
              Kept(Button_ADMIN(a, u, t, o), k)
        /\ \A u \in Posters, t \in Posters \cup {NONE}, c \in ChatTypes :
              Kept(revoke_cmd(u, t, c), k)
        /\ Kept(purge_expired_shifts, k)

\* an abandoned entry: its owner has lost the approval, the last day has
\* come, a second prompt was answered in the meantime and the purge, run
\* now, removes a row but not the entry
C22_Witness ==
    \E k \in DOMAIN PENDING, j \in Prompts :
        /\ j # k /\ taken[j] = 1
        /\ get_approved_org(PENDING[k].owner_id) = Null
        /\ today = MaxDay
        /\ purge_expired_shifts.shifts # shifts
        /\ Kept(purge_expired_shifts, k)
\* C23 -- no entry outlives a single action attempt: a SETDATE tap on a
\* prompt whose entry is stored removes that entry whatever the outcome
\* (shift created, refused by the duplicate guard, refused because the owner
\* is no longer approved, or a date that fails to parse), and removes no
\* other entry; a prompt that was tapped once has no entry.
C23_GoneAfterAttempt ==
    /\ \A j \in Prompts : taken[j] >= 1 => j \notin DOMAIN PENDING
    /\ \A k \in DOMAIN PENDING, d \in Dates :
          LET r == Button_SETDATE(k, d)
              o == PENDING[k].owner_id
          IN  /\ k \notin DOMAIN r.PENDING
              /\ DOMAIN r.PENDING = DOMAIN PENDING \ {k}
              /\ r.reply = IF has_open_on_date(o, d) THEN "duplicate"
                           ELSE IF get_approved_org(o) = Null
                                THEN "not_approved"
                           ELSE "saved"
    /\ \A k \in DOMAIN PENDING :
          k \notin DOMAIN button_handler_malformed("bad_date_SETDATE", k).PENDING

\* one prompt was answered and refused (its payload taken, no row written,
\* its entry gone); the other is waiting, and a tap on it would be refused
\* for the date of the owner's open row and accepted for the other date
C23_Witness ==
    \E k \in DOMAIN PENDING, j \in Prompts, d \in Dates, e \in Dates :
        /\ taken[j] = 1 /\ made[j] = 0 /\ j \notin DOMAIN PENDING
        /\ Button_SETDATE(k, d).reply = "duplicate"
        /\ Button_SETDATE(k, e).reply = "saved"
        /\ k \notin DOMAIN Button_SETDATE(k, d).PENDING
\* C24 -- every membership transition notifies the affected user: each
\* change of a user's status by an APPROVE, REJECT or REVOKE tap or by
\* /revoke <user_id> is followed, in the same handler run, by an attempt to
\* send a message to that user, whatever the outcome of the other sends.
C24_TransitionNotifies ==
    \A admin \in UserIds, t \in UserIds, notify_ok \in BOOLEAN,
       ack_ok \in BOOLEAN :
        /\ \A a \in AdminActions, o \in ORG_LABELS :
              LET r == Button_ADMIN_sends(a, admin, t, o, notify_ok, ack_ok)
              IN  r.users # users => t \in r.notify
        /\ \A c \in ChatTypes :
              LET r == revoke_cmd_sends(admin, t, c, notify_ok, ack_ok)
              IN  r.users # users => t \in r.notify
\* C25 -- a failed notification is never propagated: when the message to
\* the affected user after APPROVE, REJECT or REVOKE, or the confirmation to
\* the owner after a SETDATE write, fails, the handler raises nothing, the
\* change of users or shifts is committed as with a delivered message, and
\* the admin gets the "completed" answer, the owner the removal of the
\* calendar.
C25_NotifyFailureSwallowed ==
    /\ \A a \in AdminActions, admin \in Posters, t \in Posters,
          o \in ORG_LABELS :
          LET r  == Button_ADMIN_sends(a, admin, t, o, FALSE, TRUE)
          IN  /\ r.reply # TelegramError
              /\ Authorised(admin, o) =>
                    /\ r.reply = "completed"
                    /\ r.users = update_status(users, new_status(a), t, o)
    /\ \A k \in DOMAIN PENDING, d \in Dates :
          LET r == Button_SETDATE_sends(k, d, FALSE, TRUE)
              o == PENDING[k].owner_id
          IN  /\ r.reply # TelegramError
              /\ (~has_open_on_date(o, d) /\ get_approved_org(o) # Null) =>
                    /\ r.reply = "saved"
                    /\ k \notin DOMAIN r.PENDING
                    /\ \E s \in r.shifts \ shifts :
                          s.user_id = o /\ s.date_iso = d

\* an admin with a pending requester of the admin's org and a waiting
\* prompt: the APPROVE tap and the date tap both go through although the
\* messages they send fail
C25_Witness ==
    \E admin \in Posters, t \in Posters, k \in DOMAIN PENDING, d \in Dates :
        /\ admin # t
        /\ get_approved_org(admin) # Null
        /\ Authorised(admin, get_approved_org(admin))
        /\ get_user_row(t) = [org |-> get_approved_org(admin),
                               status |-> "pending"]
        /\ LET r == Button_ADMIN_sends("APPROVE", admin, t,
                                       get_approved_org(admin), FALSE, TRUE)
           IN  r.users # users /\ r.reply = "completed"
        /\ Button_SETDATE_sends(k, d, FALSE, TRUE).reply = "saved"
\* C26 -- a process restart empties the correlation store and leaves the
\* tables users and shifts as they were; every calendar prompt issued before
\* the restart is orphaned: a SETDATE tap on it after the restart finds no
\* entry, is answered with "not linked" and writes nothing.
C26_RestartOrphans ==
    /\ main.users = users
    /\ main.shifts = shifts
    /\ main.nextShiftId = nextShiftId
    /\ main.PENDING = NoEntries
    /\ PENDING = NoEntries =>
          \A k \in Prompts, d \in Dates :
              LET r == Button_SETDATE(k, d)
              IN  /\ r.reply = "not_linked"
                  /\ r.shifts = shifts
                  /\ r.PENDING = NoEntries

\* after a restart: a prompt that was never answered has no entry, while
\* the row its owner wrote before and the owner's approval are still there
C26_Witness ==
    \E k \in Prompts, s \in shifts :
        /\ taken[k] = 0 /\ k \notin DOMAIN PENDING
        /\ PENDING = NoEntries
        /\ get_approved_org(s.user_id) = s.org
        /\ \A d \in Dates : Button_SETDATE(k, d).reply = "not_linked"
\* C27 -- closing is hard deletion: every stored row of shifts has status
\* open (and an id of its own); a CLOSE tap by the owner of the row with the
\* given id removes exactly that row and leaves every other row as it was; a
\* CLOSE tap by anyone else removes nothing.
C27_HardDelete ==
    /\ \A s \in shifts : s.status = "open"
    /\ \A s \in shifts, t \in shifts : s.id = t.id => s = t
    /\ \A u \in Posters, s \in shifts :
          LET r == Button_CLOSE(u, s.id)
          IN  IF s.user_id = u
              THEN /\ r.shifts = shifts \ {s}
                   /\ Cardinality(r.shifts) = Cardinality(shifts) - 1
                   /\ r.reply = "removed"
              ELSE r.shifts = shifts

\* on the first day, when the purge has nothing to remove, the first row is
\* gone (closed by its owner) and the second is stored; the other poster's
\* CLOSE tap on it removes nothing, the owner's removes it
C27_Witness ==
    \E s \in shifts, u \in Posters :
        /\ today = 1 /\ s.id = 2 /\ shifts = {s}
        /\ u # s.user_id
        /\ Button_CLOSE(u, s.id).shifts = shifts
        /\ Button_CLOSE(s.user_id, s.id).shifts = {}
UserStatuses == {"pending", "approved", "rejected"}

\* result r deletes no user row and gives every row a status of the set
RowsStay(r) ==
    /\ DOMAIN users \subseteq DOMAIN r.users
    /\ \A x \in DOMAIN r.users : r.users[x].status \in UserStatuses

\* result r leaves the status of every user row as it is
SameStatus(r) ==
    \A x \in DOMAIN users :
        x \in DOMAIN r.users /\ r.users[x].status = users[x].status

\* C28 -- a user row, once created, is never deleted and its status is
\* always pending, approved or rejected; the status of an existing row is
\* changed only by /start with a valid org code in a private chat, by the
\* APPROVE, REJECT and REVOKE taps and by /revoke <user_id>: every other
\* handler, the purge job and a restart leave every status as it is.
C28_UsersPersist ==
    /\ \A x \in DOMAIN users : users[x].status \in UserStatuses
    /\ \A u \in Posters, p \in StartPayloads, c \in ChatTypes :
          /\ RowsStay(start(u, p, c))
          /\ (Upper(p) \notin ORG_LABELS \/ c # "private")
                => SameStatus(start(u, p, c))
    /\ \A a \in AdminActions, u \in Posters, t \in Posters, o \in ORG_LABELS :
          RowsStay(Button_ADMIN(a, u, t, o))
    /\ \A u \in Posters, t \in Posters \cup {NONE}, c \in ChatTypes :
          /\ RowsStay(revoke_cmd(u, t, c))
          /\ t = NONE => SameStatus(revoke_cmd(u, t, c))
    /\ \A u \in Posters, d \in Dates \cup {NONE}, c \in ChatTypes :
          /\ SameStatus(photo_or_doc_image_handler(u, d, c))
          /\ SameStatus(search_cmd(u, d, c))
    /\ \A u \in Posters, d \in Dates, c \in ChatTypes :
          SameStatus(Button_SEARCH(u, d, c))
    /\ \A k \in 1..(MaxPrompts + 1), d \in Dates :
          SameStatus(Button_SETDATE(k, d))
    /\ \A valid \in BOOLEAN : SameStatus(Button_NAV(valid))
    /\ \A u \in Posters, i \in 1..MaxShifts, h \in BOOLEAN :
          /\ SameStatus(Button_CLOSE(u, i))
          /\ SameStatus(Button_CONTACT(u, i, h))
    /\ SameStatus(purge_expired_shifts)
    /\ SameStatus(main)

\* a rejected requester next to the approved admin who rejected them: the
\* row is still there, a plain /start leaves its status, a /start with the
\* code brings it back to pending
C28_Witness ==
    \E u \in DOMAIN users, a \in DOMAIN users :
        /\ users[u].status = "rejected"
        /\ Authorised(a, users[u].org)
        /\ start(u, Null, "private").users = users
        /\ start(u, users[u].org, "private").users[u].status = "pending"
\* the upload of u wrote exactly one row, for date D in the org u is
\* approved for, and created neither a correlation entry nor a prompt
OneRowNoPrompt(r, u, D) ==
    /\ r.shifts \ shifts =
          {[id |-> nextShiftId, user_id |-> u, date_iso |-> D,
            org |-> get_approved_org(u), status |-> "open"]}
    /\ shifts \subseteq r.shifts
    /\ r.PENDING = PENDING
    /\ r.nextCalId = nextCalId
    /\ r.cal = NONE

\* the caption has a digit group that names day D in a shape parse_date knows
Contains(caption, D) ==
    \E i \in DOMAIN caption :
        caption[i].fmt \in DateShapes /\ caption[i].date = D

\* C29 -- an approved user of org X with no open shift for date D who
\* uploads a photo whose caption contains D gets exactly one new row with
\* date D, status open and org X, and no correlation entry or calendar prompt
\* is created for that upload.
C29_CaptionDate ==
    \A u \in Posters, caption \in Captions, D \in Dates :
        (/\ get_approved_org(u) # Null
         /\ ~has_open_on_date(u, D)
         /\ Contains(caption, D))
            => OneRowNoPrompt(upload(u, caption, "private"), u, D)

\* D is the date parse_date takes from the caption: the first d/m/yyyy
\* group names D, or there is no d/m/yyyy group, or the first one names no
\* day, and the first yyyy/m/d group names D
Decides(caption, D) ==
    LET i == First(caption, "dmy")
        j == First(caption, "ymd")
    IN  \/ i # 0 /\ caption[i].date = D
        \/ /\ i = 0 \/ caption[i].date = NONE
           /\ j # 0 /\ caption[j].date = D

\* C29 (as the code behaves) -- an approved user of org X with no open
\* shift for date D who uploads a photo whose caption's deciding date is D
\* (the first d/m/yyyy date; without one, or with an impossible one, the
\* first yyyy/m/d date) gets exactly one new row with date D, status open and
\* org X, and no correlation entry or calendar prompt is created; a caption
\* with no date in either shape gets the calendar prompt and no row.
C29_FirstDate ==
    \A u \in Posters, caption \in Captions :
        get_approved_org(u) # Null =>
            /\ \A D \in Dates :
                  (~has_open_on_date(u, D) /\ Decides(caption, D))
                      => OneRowNoPrompt(upload(u, caption, "private"), u, D)
            /\ (\A D \in Dates : ~Contains(caption, D)) =>
                  LET r == upload(u, caption, "private")
                  IN  r.reply = "prompt" /\ r.shifts = shifts

\* an approved user with an open row for one day: a caption that names the
\* other day as d/m/yyyy after the first day as yyyy/m/d is saved for the
\* other day
C29_Witness ==
    \E s \in shifts, D \in Dates :
        LET caption == <<[fmt |-> "ymd", date |-> s.date_iso],
                         [fmt |-> "dmy", date |-> D]>>
        IN  /\ D # s.date_iso
            /\ get_approved_org(s.user_id) # Null
            /\ ~has_open_on_date(s.user_id, D)
            /\ upload(s.user_id, caption, "private").reply = "saved"
\* the user has a row with status approved
Approved(u) == u \in DOMAIN users /\ users[u].status = "approved"

\* result r wrote exactly one row, for owner o and date d in the org of o's
\* row, or (none) wrote nothing
WroteFor(r, o, d) ==
    r.shifts \ shifts =
        {[id |-> nextShiftId, user_id |-> o, date_iso |-> d,
          org |-> users[o].org, status |-> "open"]}

\* the part of C30 about the moment of the write: a row is written, by an
\* upload or by a SETDATE tap, only for an owner who is approved at that
\* moment, and in the org of the owner's row at that moment
WriteNeedsApproval ==
    /\ \A k \in DOMAIN PENDING, d \in Dates :
          LET r == Button_SETDATE(k, d)
              o == PENDING[k].owner_id
          IN  /\ r.shifts # shifts => Approved(o) /\ WroteFor(r, o, d)
              /\ ~Approved(o) =>
                    /\ r.shifts = shifts
                    /\ r.reply \in {"not_approved", "duplicate"}
    /\ \A u \in Posters, d \in Dates \cup {NONE}, c \in ChatTypes :
          LET r == photo_or_doc_image_handler(u, d, c)
          IN  r.shifts # shifts => Approved(u) /\ WroteFor(r, u, d)

\* C30 -- a shift row is created only if its owner is approved at the
\* moment of the write, and its org is the owner's approved org at that
\* moment: if the owner is revoked, rejected or re-requests between the
\* date-less upload and the SETDATE tap, the tap creates no shift.
C30_NoShiftAfterEvent ==
    /\ WriteNeedsApproval
    /\ \A k \in Prompts : since[k] \cap MemberEvents # {} => made[k] = 0

\* C30 (as the code behaves) -- a shift row is created only if its owner is
\* approved at the moment of the write, and its org is the owner's approved
\* org at that moment: a SETDATE tap for an owner whom a revoke, a reject or
\* a re-request has left not approved creates no shift; nothing else about
\* the time between the upload and the tap counts.
C30_ApprovedAtWrite ==
    /\ WriteNeedsApproval
    /\ \A k \in DOMAIN PENDING :
          (since[k] \cap MemberEvents # {} /\ ~Approved(PENDING[k].owner_id))
              => \A d \in Dates : Button_SETDATE(k, d).made[k] = 0

\* the owner, a member, was revoked while the prompt waited and is not
\* approved: the date tap is refused
C30_Witness ==
    \E k \in DOMAIN PENDING, d \in Dates :
        /\ "revoke" \in since[k]
        /\ ~Approved(PENDING[k].owner_id)
        /\ ~is_admin_for_org(PENDING[k].owner_id,
                              users[PENDING[k].owner_id].org)
        /\ Button_SETDATE(k, d).reply = "not_approved"
\* C31 -- /revoke <user_id> changes a user's status only from approved to
\* pending, and only when the issuer is an approved registry admin and the
\* target's org is the issuer's org; then only the target's status changes.
\* For an unknown target, a target of another org or a target that is not
\* approved no user row changes.
C31_RevokeCmd ==
    \A admin \in UserIds, t \in UserIds, c \in ChatTypes :
        LET r == revoke_cmd(admin, t, c)
        IN  /\ DOMAIN r.users = DOMAIN users
            /\ \A x \in DOMAIN users : x # t => r.users[x] = users[x]
            /\ r.users # users =>
                  /\ c = "private"
                  /\ admin \in DOMAIN users
                  /\ Authorised(admin, users[admin].org)
                  /\ t \in DOMAIN users
                  /\ users[t] = [org |-> users[admin].org,
                                 status |-> "approved"]
                  /\ r.users[t] = [org |-> users[t].org, status |-> "pending"]
            /\ (\/ t \notin DOMAIN users
                \/ get_user_row(t).org # get_user_row(admin).org
                \/ get_user_row(t).status # "approved")
                  => r.users = users

\* the admin of one org, an approved member of that org and the approved
\* admin of the other org: /revoke takes the member back to pending and
\* refuses the other admin
C31_Witness ==
    \E admin \in UserIds, m \in UserIds, b \in UserIds :
        /\ admin # m /\ admin # b
        /\ get_approved_org(admin) # Null
        /\ Authorised(admin, get_approved_org(admin))
        /\ get_approved_org(m) = get_approved_org(admin)
        /\ get_approved_org(b) # Null
        /\ get_approved_org(b) # get_approved_org(admin)
        /\ revoke_cmd(admin, m, "private").users[m].status = "pending"
        /\ revoke_cmd(admin, b, "private").reply = "other_org"
\* C32 -- a CLOSE tap deletes the shift, and nothing else, when the tapper
\* owns it, whatever the owner's membership status or org; a tap by any
\* other user, or on an id without a row, leaves every shift row unchanged.
\* Users and the correlation store are never touched.
C32_OwnerCloses ==
    \A u \in UserIds, i \in 1..MaxShifts :
        LET r == Button_CLOSE(u, i)
        IN  /\ r.users = users
            /\ r.PENDING = PENDING
            /\ \A s \in ShiftById(i) :
                   r.shifts = IF s.user_id = u THEN shifts \ {s} ELSE shifts
            /\ ShiftById(i) = {} => r.shifts = shifts

\* an owner who is no longer approved in the org of their shift closes it,
\* and the same tap by another user is refused
C32_Witness ==
    \E s \in OpenRows, v \in UserIds :
        /\ v # s.user_id
        /\ get_approved_org(s.user_id) # s.org
        /\ Button_CLOSE(s.user_id, s.id).shifts = shifts \ {s}
        /\ Button_CLOSE(v, s.id).reply = "no_permission"
        /\ Button_CLOSE(v, s.id).shifts = shifts
\* the query of has_open_on_date (lines 675-683) run on the shifts of a
\* handler's result
has_open_on_date_after(r, user_id, date_iso) ==
    \E s \in r.shifts :
        s.user_id = user_id /\ s.date_iso = date_iso /\ s.status = "open"

\* C33 -- the purge job deletes exactly the shift rows dated strictly before
\* today and leaves every other shift row, every user row and the
\* correlation store unchanged; after it the duplicate guard does not block
\* the (owner, date) pair of any purged row.
C33_PurgeExpired ==
    LET r == purge_expired_shifts
    IN  /\ r.shifts = {s \in shifts : s.date_iso >= today}
        /\ r.users = users
        /\ r.PENDING = PENDING
        /\ \A s \in shifts \ r.shifts :
               /\ has_open_on_date(s.user_id, s.date_iso)
               /\ ~has_open_on_date_after(r, s.user_id, s.date_iso)

\* a shift of yesterday and a shift of today, with a prompt waiting: the job
\* removes the first and keeps the second
C33_Witness ==
    \E s \in shifts, t \in shifts :
        /\ s.date_iso < today /\ t.date_iso = today
        /\ purge_expired_shifts.shifts = shifts \ {s}
        /\ t \in purge_expired_shifts.shifts
        /\ PENDING # NoEntries
        /\ DOMAIN users # {}
(* ----- members who post, leave an org and join the other one ----------- *)
EvMiei(U) ==
    \E u \in U, c \in ChatTypes : Handle(miei_cmd(u, c))

NextOrgs ==
    \/ EvStart(UserIds)
    \/ EvAdmin(UserIds)
    \/ EvRevokeCmd(UserIds)
    \/ EvUploadDated(UserIds)
    \/ EvMiei(UserIds)
    \/ EvClose(UserIds)

SpecOrgs == Init /\ [][NextOrgs]_vars

\* C34 -- whenever the duplicate guard refuses the posting of an approved
\* owner for a date, the owner's own list of open shifts (miei_list_dm, the
\* only place with the CLOSE button) contains a shift of that date.
C34_BlockedIsListed ==
    \A u \in UserIds, d \in Dates :
        (/\ get_approved_org(u) # Null
         /\ photo_or_doc_image_handler(u, d, "private").reply = "duplicate")
            => \E s \in shifts :
                   /\ s.id \in miei_cmd(u, "private").shown
                   /\ s.date_iso = d
(* ----- the admin's buttons: sent by /pending and /revoke, tapped later -- *)
\* the callback data of a message's buttons (lines 933-934, 1307)
ButtonActions(kind) ==
    IF kind = "request" THEN {"APPROVE", "REJECT"} ELSE {"REVOKE"}

Sent(admin, org, kind, targets) ==
    {[admin |-> admin, target |-> t, org |-> org, kind |-> kind] : t \in targets}

\* /pending: one message with APPROVE and REJECT per pending user
EvPending ==
    \E admin \in UserIds, c \in ChatTypes :
        LET r   == pending_cmd(admin, c)
            new == buttons \cup Sent(admin, get_user_row(admin).org,
                                     "request", r.shown)
        IN  /\ Cardinality(new) <= MaxButtons
            /\ Install(r)
            /\ buttons' = new
            /\ UNCHANGED <<today, tasks, album, since>>

\* /revoke without argument: one message with REVOKE per approved user
EvRevokeList ==
    \E admin \in UserIds, c \in ChatTypes :
        LET r   == revoke_cmd(admin, NONE, c)
            new == IF r.reply = "list"
                   THEN buttons \cup
                        Sent(admin, get_user_row(admin).org, "revoke",
                             revoke_list(get_user_row(admin).org))
                   ELSE buttons
        IN  /\ Cardinality(new) <= MaxButtons
            /\ Install(r)
            /\ buttons' = new
            /\ UNCHANGED <<today, tasks, album, since>>

\* a tap on a button that is still on screen; every outcome of the branch
\* edits the message, which removes its buttons (lines 2025, 2031, 2035, 2090)
EvButton ==
    \E b \in buttons :
        \E a \in ButtonActions(b.kind) :
            /\ Install(Button_ADMIN(a, b.admin, b.target, b.org))
            /\ buttons' = buttons \ {b}
            /\ UNCHANGED <<today, tasks, album, since>>

NextButtons ==
    \/ EvStart(UserIds)
    \/ EvPending
    \/ EvRevokeList
    \/ EvButton
    \/ \E u \in UserIds, t \in UserIds : Handle(revoke_cmd(u, t, "private"))

SpecButtons == Init /\ [][NextButtons]_vars

\* C35 -- a tap on an admin button that is on screen sends the approved /
\* rejected / revoked notice to the target, and the completion report to the
\* admin, only when the target's stored status after the handler is the
\* announced one; a stale button whose org is no longer the target's org
\* sends no notice.
C35_NoticeMatchesStatus ==
    \A b \in buttons :
        \A a \in ButtonActions(b.kind) :
            LET r == Button_ADMIN(a, b.admin, b.target, b.org)
            IN  (b.target \in r.notify \/ r.reply = "completed")
                    => /\ b.target \in DOMAIN r.users
                       /\ r.users[b.target].org = b.org
                       /\ r.users[b.target].status = new_status(a)
\* C36 -- an approved user's status changes to a non-approved one only
\* through an admin REVOKE (callback or /revoke): nothing the user does
\* themself (/start with any code or none, an upload, /miei, a CLOSE tap)
\* changes their status or their org, and neither does an APPROVE or a
\* REJECT tap of an admin.
C36_OnlyRevokeDemotes ==
    \A u \in DOMAIN users :
        users[u].status = "approved" =>
            /\ \A p \in StartPayloads, c \in ChatTypes :
                   start(u, p, c).users[u] = users[u]
            /\ \A d \in Dates, c \in ChatTypes :
                   photo_or_doc_image_handler(u, d, c).users[u] = users[u]
            /\ \A c \in ChatTypes : miei_cmd(u, c).users[u] = users[u]
            /\ \A i \in 1..MaxShifts : Button_CLOSE(u, i).users[u] = users[u]
            /\ \A a \in AdminActions \ {"REVOKE"}, admin \in UserIds,
                  o \in ORG_LABELS :
                   Button_ADMIN(a, admin, u, o).users[u] = users[u]
\* C37 (as claimed) -- in every reachable state every open shift is owned
\* by a user who is approved in that shift's org.
C37_OwnersApproved ==
    \A s \in OpenRows : get_approved_org(s.user_id) = s.org

\* C37 -- what the code keeps: every open shift carries one of the fixed org
\* codes and its owner has a user row; /start, the admin taps and /revoke
\* never change table shifts, so the open shifts of a user who was revoked,
\* rejected or moved to another org stay stored, and a search in the private
\* chat shows each open shift to every user approved in the shift's org.
C37_ShiftsOutliveMembership ==
    /\ \A s \in OpenRows : s.org \in ORG_LABELS /\ s.user_id \in DOMAIN users
    /\ \A u \in UserIds, p \in StartPayloads, c \in ChatTypes :
           start(u, p, c).shifts = shifts
    /\ \A a \in AdminActions, admin \in UserIds, t \in UserIds,
          o \in ORG_LABELS :
           Button_ADMIN(a, admin, t, o).shifts = shifts
    /\ \A admin \in UserIds, t \in UserIds \cup {NONE}, c \in ChatTypes :
           revoke_cmd(admin, t, c).shifts = shifts
    /\ \A s \in OpenRows, v \in UserIds :
           get_approved_org(v) = s.org
               => s.id \in show_shifts(v, s.date_iso, "private").shown

\* an open shift whose owner is no longer approved in its org is shown to
\* another user who is approved there
C37_Witness ==
    \E s \in OpenRows, v \in UserIds :
        /\ v # s.user_id
        /\ get_approved_org(s.user_id) # s.org
        /\ get_approved_org(v) = s.org
        /\ s.id \in show_shifts(v, s.date_iso, "private").shown
\* C38 -- a NAV tap changes only the calendar shown: users, shifts and the
\* correlation store are unchanged and no new message is sent (the prompt
\* keeps its id), so every entry that waited before the NAV tap waits after
\* it under the same id and a SETDATE tap on that prompt resolves it.
C38_NavKeepsEntries ==
    \A valid \in BOOLEAN :
        LET r == Button_NAV(valid)
        IN  /\ r.users = users
            /\ r.shifts = shifts
            /\ r.nextShiftId = nextShiftId
            /\ r.PENDING = PENDING
            /\ r.nextCalId = nextCalId
            /\ r.cal = NONE
            /\ r.notify = {}
            /\ \A k \in DOMAIN r.PENDING, d \in Dates :
                   /\ Button_SETDATE(k, d).reply # "not_linked"
                   /\ Button_SETDATE(k, d).taken[k] = Bump(taken[k])

\* a prompt waits, a NAV tap shows another month, and a SETDATE tap on the
\* same message then writes the shift
C38_Witness ==
    \E k \in DOMAIN PENDING, d \in Dates :
        /\ Button_NAV(TRUE).reply = "month"
        /\ k \in DOMAIN Button_NAV(TRUE).PENDING
        /\ Button_SETDATE(k, d).reply = "saved"
C40_PlainStart ==
    \A u \in UserIds, p \in StartPayloads, c \in ChatTypes :
        Upper(p) \notin ORG_LABELS =>
            LET r == start(u, p, c)
            IN  /\ \A x \in DOMAIN users : r.users[x] = users[x]
                /\ DOMAIN r.users =
                       IF c = "private" THEN DOMAIN users \cup {u}
                       ELSE DOMAIN users
                /\ (c = "private" /\ u \notin DOMAIN users)
                       => r.users[u] = [org |-> Null, status |-> "pending"]
                /\ r.shifts = shifts
                /\ r.PENDING = PENDING

\* an approved member keeps org and status over a /start without a code and
\* over one with an unknown code, while a sender without a row gets one
C40_Witness ==
    \E u \in UserIds, v \in UserIds :
        /\ get_approved_org(u) # Null
        /\ ~is_admin_for_org(u, get_approved_org(u))
        /\ start(u, Null, "private").users[u] = users[u]
        /\ start(u, "XYZ", "private").users[u] = users[u]
        /\ v \notin DOMAIN users
        /\ start(v, "XYZ", "private").users[v] =
               [org |-> Null, status |-> "pending"]

====
